---- MODULE Spec2Model ----
(***************************************************************************)
(* blocks/bricks/bn.py: the batch-normalization bricks and the graph       *)
(* rewriter batch_normalize.                                               *)
(*                                                                         *)
(* Spec      : a computation graph is built by BatchNormalization.apply    *)
(*             and by variables the caller tagged, then batch_normalize    *)
(*             runs on it, step by step, up to MaxRuns times.              *)
(* SpecBrick : construction and allocation of one BatchNormalization or    *)
(*             SpatialBatchNormalization brick.                            *)
(***************************************************************************)
EXTENDS Integers, Sequences, FiniteSets, TLC

\* ------------------------------------------------------------------ bounds
MaxCalls == 2       \* application calls of BatchNormalization.apply
MaxExtra == 1       \* variables of the graph tagged outside apply
MaxRuns == 2        \* calls of batch_normalize on the same graph
MaxDim == 3         \* length of input_dim and of a broadcast mask
MaxSize == 2        \* size of one axis of input_dim

VARIABLES
    nodes,          \* every Theano variable in memory: id -> metadata
    graph,          \* computation_graph.variables, ids in graph order
    ncalls,         \* application calls made so far
    nextra,         \* caller-tagged variables added so far
    pc,             \* position inside batch_normalize ("idle" outside)
    means,          \* OrderedDict application call -> offset variable
    stdevs,         \* OrderedDict application call -> divisor variable
    inputs,         \* OrderedDict application call -> input variable
    todo,           \* keys of means the for loop has not visited yet
    replacements,   \* the list of (old, new) pairs
    history,        \* what each finished call of batch_normalize gave
    args,           \* the arguments of the last constructor call
    brick,          \* the brick that call constructed
    bpc             \* the brick's lifecycle position

vars == <<nodes, graph, ncalls, nextra, pc, means, stdevs, inputs, todo,
          replacements, history, args, brick, bpc>>

graphVars == <<nodes, graph, ncalls, nextra, pc, means, stdevs, inputs, todo,
               replacements, history>>

brickVars == <<args, brick, bpc>>

\* ------------------------------------------------------------------- roles
INPUT == "INPUT"
OUTPUT == "OUTPUT"
BATCH_NORM_OFFSET == "BATCH_NORM_OFFSET"
BATCH_NORM_DIVISOR == "BATCH_NORM_DIVISOR"
BATCH_NORM_MINIBATCH_ESTIMATE == "BATCH_NORM_MINIBATCH_ESTIMATE"

Range(s) == {s[i] : i \in DOMAIN s}

\* --------------------------------------------------- bricks of the graph
\* The brick an application call was made on.  Calls 2k-1 and 2k are two
\* invocations of the same BatchNormalization brick k; the call after the
\* last BatchNormalization call belongs to a brick of another class.
\* Call 0 and brick 0 stand for "no such annotation".
LinearCall == MaxCalls + 1

LinearBrick == MaxCalls + 1

BrickOfCall(c) == IF c = LinearCall THEN LinearBrick ELSE (c + 1) \div 2

IsBatchNormalization(b) == b \in 1..MaxCalls

\* self.broadcastable of brick b (per-example axes), two axes long.
BrickBroadcastable(b) == <<b % 2 = 0, b % 2 = 1>>

\* broadcastable of population_mean / population_stdev: (True,) + mask
PopulationBroadcastable(b) == <<TRUE>> \o BrickBroadcastable(b)

\* ------------------------------------------------------------- variables
Variable(roles, call, bcast, op, nm) ==
    [roles |-> roles, call |-> call, brick |-> BrickOfCall(call),
     broadcastable |-> bcast, op |-> op, arg |-> 0, axes |-> {},
     name |-> nm, replacement_of |-> 0]

\* add_role(var, role)
add_role(var, role) == [var EXCEPT !.roles = @ \cup {role}]

\* add_annotation(var, brick); add_annotation(var, application_call)
add_annotation(var, b, call) == [var EXCEPT !.brick = b, !.call = call]

\* ------------------------------------------------- constructing a brick
\* input_dim: omitted (the lazy decorator fills in NoneAllocation), an int,
\* or a sequence of ints.  broadcastable: a keyword that is absent, None,
\* or a tuple of booleans.
NoneAllocation == [kind |-> "NoneAllocation", dims |-> <<>>]

RECURSIVE SeqsUpTo(_, _)
SeqsUpTo(S, n) ==
    IF n = 0 THEN {<<>>}
    ELSE LET shorter == SeqsUpTo(S, n - 1)
         IN shorter \cup {Append(q, x) : q \in shorter, x \in S}

InputDims ==
    {NoneAllocation}
      \cup {[kind |-> "int", dims |-> <<d>>] : d \in 1..MaxSize}
      \cup {[kind |-> "Sequence", dims |-> q] : q \in SeqsUpTo(1..MaxSize, MaxDim)}

Absent == [kind |-> "absent", mask |-> <<>>]

None == [kind |-> "None", mask |-> <<>>]

Tuples == {[kind |-> "tuple", mask |-> q] : q \in SeqsUpTo(BOOLEAN, MaxDim)}

NoArgs == [cls |-> "none", input_dim |-> NoneAllocation,
           broadcastable |-> Absent]

NoBrick == [cls |-> "none", input_dim |-> NoneAllocation,
            broadcastable |-> None, parameters |-> <<>>,
            population_mean |-> <<>>, population_stdev |-> <<>>]

\* lines 72-83: BatchNormalization.__init__ stores its arguments.
BatchNormalization__init__(cls, input_dim, broadcastable) ==
    [cls |-> cls, input_dim |-> input_dim, broadcastable |-> broadcastable,
     parameters |-> <<>>, population_mean |-> <<>>,
     population_stdev |-> <<>>]

ConstructBatchNormalization ==
    /\ bpc = "none"
    /\ \E input_dim \in InputDims, broadcastable \in {None} \cup Tuples :
          /\ args' = [cls |-> "BatchNormalization", input_dim |-> input_dim,
                      broadcastable |-> broadcastable]
          /\ brick' = BatchNormalization__init__("BatchNormalization",
                                                 input_dim, broadcastable)
    /\ bpc' = "constructed"
    /\ UNCHANGED graphVars

\* lines 212-213: isinstance(input_dim, Sequence) and len(input_dim) >= 2
HasSpatialDimsOrOne(input_dim) ==
    input_dim.kind = "Sequence" /\ Len(input_dim.dims) >= 1

HasSpatialDims(input_dim) ==
    input_dim.kind = "Sequence" /\ Len(input_dim.dims) >= 2

\* line 216: (False,) + ((True,) * (len(input_dim) - 1))
SpatialBroadcastableTooLong(input_dim) ==
    [kind |-> "tuple",
     mask |-> <<FALSE>> \o [i \in 1..Len(input_dim.dims) |-> TRUE]]

SpatialBroadcastable(input_dim) ==
    [kind |-> "tuple",
     mask |-> <<FALSE>> \o [i \in 1..(Len(input_dim.dims) - 1) |-> TRUE]]

\* line 217: kwargs.setdefault('broadcastable', broadcastable)
setdefault(kwarg, default) == IF kwarg.kind = "absent" THEN default ELSE kwarg

\* lines 210-218: SpatialBatchNormalization.__init__
ConstructSpatialBatchNormalization ==
    /\ bpc = "none"
    /\ \E input_dim \in InputDims, kwarg \in {Absent, None} \cup Tuples :
          /\ args' = [cls |-> "SpatialBatchNormalization",
                      input_dim |-> input_dim, broadcastable |-> kwarg]
          /\ IF ~HasSpatialDims(input_dim)
             THEN /\ bpc' = "ValueError in __init__"
                  /\ UNCHANGED brick
             ELSE /\ brick' = BatchNormalization__init__(
                                 "SpatialBatchNormalization", input_dim,
                                 setdefault(kwarg,
                                            SpatialBroadcastable(input_dim)))
                  /\ bpc' = "constructed"
    /\ UNCHANGED graphVars

\* lines 106-108: a scalar input_dim counts as a 1-tuple
AsSequence(input_dim) ==
    IF input_dim.kind = "Sequence" THEN input_dim.dims
    ELSE <<input_dim.dims[1]>>

\* lines 109-110: no mask means no axis is averaged
EffectiveBroadcastable(b) ==
    IF b.broadcastable.kind = "None"
    THEN [i \in 1..Len(AsSequence(b.input_dim)) |-> FALSE]
    ELSE b.broadcastable.mask

\* line 111: len(input_dim) != len(broadcastable)
LengthsDifferOnlyIfShorter(b) ==
    Len(AsSequence(b.input_dim)) > Len(EffectiveBroadcastable(b))

LengthsDiffer(b) ==
    Len(AsSequence(b.input_dim)) # Len(EffectiveBroadcastable(b))

\* lines 113-116
var_dim(b) ==
    <<1>> \o [i \in 1..Len(AsSequence(b.input_dim)) |->
                IF EffectiveBroadcastable(b)[i] THEN 1
                ELSE AsSequence(b.input_dim)[i]]

Shared(b, nm) ==
    [name |-> nm, shape |-> var_dim(b),
     broadcastable |-> <<TRUE>> \o EffectiveBroadcastable(b)]

\* lines 105-139: BatchNormalization._allocate.  Brick.allocate calls it
\* only once every allocation argument (input_dim) is set.
Allocate ==
    /\ bpc = "constructed"
    /\ brick.input_dim # NoneAllocation
    /\ IF LengthsDiffer(brick)
       THEN /\ bpc' = "ValueError in _allocate"
            /\ UNCHANGED brick
       ELSE /\ brick' = [brick EXCEPT
                           !.parameters = <<Shared(brick, "batch_norm_scale"),
                                            Shared(brick, "batch_norm_shift")>>,
                           !.population_mean =
                               <<Shared(brick, "population_mean")>>,
                           !.population_stdev =
                               <<Shared(brick, "population_stdev")>>]
            /\ bpc' = "allocated"
    /\ UNCHANGED <<args, graphVars>>

NextBrick == ConstructBatchNormalization
               \/ ConstructSpatialBatchNormalization \/ Allocate

\* ------------------------------------------------------ building a graph
EmptyDict == [keys |-> <<>>, val |-> <<>>]

Init ==
    /\ nodes = <<>>
    /\ graph = <<>>
    /\ ncalls = 0
    /\ nextra = 0
    /\ pc = "idle"
    /\ means = EmptyDict
    /\ stdevs = EmptyDict
    /\ inputs = EmptyDict
    /\ todo = <<>>
    /\ replacements = <<>>
    /\ history = <<>>
    /\ args = NoArgs
    /\ brick = NoBrick
    /\ bpc = "none"

\* BatchNormalization.apply, one application call on brick BrickOfCall(c):
\* the input is tagged INPUT, copies of the population statistics are
\* tagged offset and divisor and annotated with the brick and the call.
Apply ==
    /\ pc = "idle"
    /\ history = <<>>
    /\ ncalls < MaxCalls
    /\ LET c == ncalls + 1
           b == BrickOfCall(c)
           n == Len(nodes)
           input_ == Variable({INPUT}, c, <<FALSE, FALSE, FALSE>>,
                              "input", "input_")
           annotate(var, role) == add_annotation(add_role(var, role), b, c)
           mean == annotate(Variable({}, c, PopulationBroadcastable(b),
                                     "copy_population_mean",
                                     "population_offset"),
                            BATCH_NORM_OFFSET)
           stdev == annotate(Variable({}, c, PopulationBroadcastable(b),
                                      "copy_population_stdev",
                                      "population_divisor"),
                             BATCH_NORM_DIVISOR)
           normalized == Variable({OUTPUT}, c, <<FALSE, FALSE, FALSE>>,
                                  "batch_normalization", "output")
       IN /\ nodes' = nodes \o <<input_, mean, stdev, normalized>>
          /\ graph' = graph \o <<n + 1, n + 2, n + 3, n + 4>>
          /\ ncalls' = c
    /\ UNCHANGED <<nextra, pc, means, stdevs, inputs, todo, replacements,
                   history, brickVars>>

\* The graph handed to batch_normalize may hold variables that were tagged
\* outside apply: any of the three filtered roles, annotated with any
\* BatchNormalization call, or the input of another brick's call.
TaggedRoles == SUBSET {INPUT, BATCH_NORM_OFFSET, BATCH_NORM_DIVISOR} \ {{}}

TaggedVariable ==
    /\ pc = "idle"
    /\ history = <<>>
    /\ nextra < MaxExtra
    /\ \E roles \in TaggedRoles, c \in 1..LinearCall :
          /\ c = LinearCall => roles = {INPUT}
          /\ nodes' = Append(nodes, Variable(roles, c, <<TRUE, TRUE, TRUE>>,
                                             "tagged", "tagged"))
          /\ graph' = Append(graph, Len(nodes) + 1)
    /\ nextra' = nextra + 1
    /\ UNCHANGED <<ncalls, pc, means, stdevs, inputs, todo, replacements,
                   history, brickVars>>

\* ------------------------------------------------------- batch_normalize
\* VariableFilter(bricks=[BatchNormalization], roles=[role]) applied to the
\* graph: its variables, in graph order, that carry the role and are
\* annotated with a BatchNormalization brick.
VariableFilter(role) ==
    SelectSeq(graph, LAMBDA v : /\ IsBatchNormalization(nodes[v].brick)
                                /\ role \in nodes[v].roles)

get_application_call(v) == nodes[v].call

\* collections.OrderedDict((get_application_call(v), v) for v in vs): a key
\* keeps the position of its first insertion and the value of its last.
RECURSIVE OrderedDict(_)
OrderedDict(vs) ==
    IF vs = <<>> THEN EmptyDict
    ELSE LET d == OrderedDict(SubSeq(vs, 1, Len(vs) - 1))
             v == vs[Len(vs)]
             k == get_application_call(v)
         IN [keys |-> IF k \in Range(d.keys) THEN d.keys
                      ELSE Append(d.keys, k),
             val |-> (k :> v) @@ d.val]

get_application_call_dict(role) == OrderedDict(VariableFilter(role))

Keys(d) == Range(d.keys)

Values(d) == {d.val[k] : k \in Keys(d)}

\* lines 286-302: the three filters and the three dicts
Filter ==
    /\ pc = "idle"
    /\ Len(history) < MaxRuns
    /\ means' = get_application_call_dict(BATCH_NORM_OFFSET)
    /\ stdevs' = get_application_call_dict(BATCH_NORM_DIVISOR)
    /\ inputs' = get_application_call_dict(INPUT)
    /\ pc' = "assert"
    /\ UNCHANGED <<nodes, graph, ncalls, nextra, todo, replacements, history,
                   brickVars>>

\* lines 304-305: the three dicts have the same application calls as keys
InvocationSetsAgreeMeansStdevs == Keys(means) = Keys(stdevs)

InvocationSetsAgree ==
    /\ Keys(means) = Keys(stdevs)
    /\ Keys(means) = Keys(inputs)

\* line 306: set(means.values()).isdisjoint(stdevs.values())
OffsetsDisjointFromDivisors == Values(means) \cap Values(stdevs) = {}

\* line 308: replacements = []
StaleReplacementList == replacements

NewReplacementList == <<>>

\* What one finished call of batch_normalize gave its caller.
Describe(repl) ==
    [i \in DOMAIN repl |-> [old |-> repl[i][1], new |-> nodes[repl[i][2]]]]

Raised == [outcome |-> "AssertionError", replacements |-> <<>>,
           result |-> <<>>]

\* lines 304-308: the two assertions; a failed one ends the call.
Assertions ==
    /\ pc = "assert"
    /\ IF InvocationSetsAgree /\ OffsetsDisjointFromDivisors
       THEN /\ replacements' = NewReplacementList
            /\ todo' = means.keys
            /\ pc' = "loop"
            /\ UNCHANGED history
       ELSE /\ history' = Append(history, Raised)
            /\ pc' = "idle"
            /\ UNCHANGED <<replacements, todo>>
    /\ UNCHANGED <<nodes, graph, ncalls, nextra, means, stdevs, inputs,
                   brickVars>>

\* lines 311-312: the indices of the broadcastable axes of a variable
BroadcastAxes(v) ==
    {i - 1 : i \in {j \in DOMAIN nodes[v].broadcastable :
                        nodes[v].broadcastable[j]}}

ReductionAxesOfDivisor(c) == BroadcastAxes(stdevs.val[c])

ReductionAxes(c) == BroadcastAxes(means.val[c])

\* A reduction of variable x over axes with keepdims=True: a new variable
\* without roles or annotations.
Reduce(op, x, axes, nm) ==
    [roles |-> {}, call |-> 0, brick |-> 0,
     broadcastable |-> [i \in DOMAIN nodes[x].broadcastable |->
                          nodes[x].broadcastable[i] \/ (i - 1) \in axes],
     op |-> op, arg |-> x, axes |-> axes, name |-> nm, replacement_of |-> 0]

\* lines 313-315
minibatch_mean(c) ==
    Reduce("mean", inputs.val[c], ReductionAxes(c), "minibatch_offset")

\* lines 317-320: sqrt(var(input, axes, keepdims) + epsilon)
minibatch_std(c) ==
    Reduce("sqrt_var_plus_epsilon", inputs.val[c], ReductionAxes(c),
           "minibatch_divisor")

\* lines 322-328 on the variables ns: roles, annotations and tag of new
prepare_replacement_tags_old(ns, old, new, role, application_call) ==
    [ns EXCEPT ![old] =
        [add_annotation(add_role(add_role(@, BATCH_NORM_MINIBATCH_ESTIMATE),
                                 role),
                        BrickOfCall(application_call), application_call)
         EXCEPT !.replacement_of = new]]

prepare_replacement(ns, old, new, role, application_call) ==
    [ns EXCEPT ![new] =
        [add_annotation(add_role(add_role(@, BATCH_NORM_MINIBATCH_ESTIMATE),
                                 role),
                        BrickOfCall(application_call), application_call)
         EXCEPT !.replacement_of = old]]

\* lines 310-334: one iteration of the loop over the keys of means
ForApplicationCall ==
    /\ pc = "loop"
    /\ todo # <<>>
    /\ LET application_call == Head(todo)
           m == Len(nodes) + 1
           s == Len(nodes) + 2
           created == nodes \o <<minibatch_mean(application_call),
                                 minibatch_std(application_call)>>
       IN /\ nodes' = prepare_replacement(
                        prepare_replacement(created,
                                            means.val[application_call], m,
                                            BATCH_NORM_OFFSET,
                                            application_call),
                        stdevs.val[application_call], s,
                        BATCH_NORM_DIVISOR, application_call)
          /\ replacements' = replacements \o
                 <<<<means.val[application_call], m>>,
                   <<stdevs.val[application_call], s>>>>
    /\ todo' = Tail(todo)
    /\ UNCHANGED <<graph, ncalls, nextra, pc, means, stdevs, inputs, history,
                   brickVars>>

\* computation_graph.replace(replacements): a new list of variables, each
\* old variable substituted by its new one, all pairs at once.
Replace(g, repl) ==
    [i \in DOMAIN g |->
        IF \E j \in DOMAIN repl : repl[j][1] = g[i]
        THEN repl[CHOOSE j \in DOMAIN repl : repl[j][1] = g[i]][2]
        ELSE g[i]]

\* line 336
Return ==
    /\ pc = "loop"
    /\ todo = <<>>
    /\ history' = Append(history,
                         [outcome |-> "returned",
                          replacements |-> Describe(replacements),
                          result |-> Replace(graph, replacements)])
    /\ pc' = "idle"
    /\ UNCHANGED <<nodes, graph, ncalls, nextra, means, stdevs, inputs, todo,
                   replacements, brickVars>>

Next == Apply \/ TaggedVariable \/ Filter \/ Assertions \/ ForApplicationCall
          \/ Return

Spec == Init /\ [][Next]_vars

SpecBrick == Init /\ [][NextBrick]_vars

\* ------------------------------------------------------------ properties
\* The variables of the input graph that carry a role for a call of a
\* BatchNormalization brick, and the calls that have such a variable.
VariablesOf(role, c) ==
    {v \in Range(graph) : /\ role \in nodes[v].roles
                          /\ nodes[v].call = c
                          /\ IsBatchNormalization(nodes[v].brick)}

CallsWith(role) == {c \in 1..MaxCalls : VariablesOf(role, c) # {}}

Returned(h) == h.outcome = "returned"

Last(q) == q[Len(q)]

Estimate(v) ==
    /\ BATCH_NORM_MINIBATCH_ESTIMATE \in nodes[v].roles
    /\ nodes[v].op \in {"mean", "sqrt_var_plus_epsilon"}

StatisticRole(v) ==
    /\ IsBatchNormalization(nodes[v].brick)
    /\ nodes[v].roles \cap {BATCH_NORM_OFFSET, BATCH_NORM_DIVISOR} # {}

\* C1: in every returned graph each variable tagged offset or divisor of a
\* BatchNormalization call is a minibatch estimate, never a copy of a
\* population statistic, and every other variable is the input graph's.
C1_EveryStatisticIsMinibatchEstimate ==
    \A k \in DOMAIN history :
        Returned(history[k]) =>
            /\ Len(history[k].result) = Len(graph)
            /\ \A i \in DOMAIN graph :
                 LET v == history[k].result[i]
                 IN /\ StatisticRole(v) => Estimate(v)
                    /\ ~StatisticRole(graph[i]) => v = graph[i]

MismatchedInvocations ==
    ~(/\ CallsWith(BATCH_NORM_OFFSET) = CallsWith(BATCH_NORM_DIVISOR)
      /\ CallsWith(BATCH_NORM_OFFSET) = CallsWith(INPUT))

\* C2: batch_normalize raises AssertionError whenever the calls that have
\* an offset, a divisor and an input variable are not the same three sets.
C2_MismatchedInvocationsRaise ==
    MismatchedInvocations =>
        /\ pc # "loop"
        /\ \A k \in DOMAIN history : history[k].outcome = "AssertionError"

\* an input-tagged variable of a call without offset and divisor, rejected
C2_Witness ==
    /\ history # <<>>
    /\ history[1].outcome = "AssertionError"
    /\ \E c \in CallsWith(INPUT) :
          c \notin CallsWith(BATCH_NORM_OFFSET) \cup CallsWith(BATCH_NORM_DIVISOR)

\* C3: batch_normalize raises AssertionError whenever some variable of the
\* graph is both an offset and a divisor.
C3_AliasedStatisticRaises ==
    (\E v \in Range(graph) :
        /\ IsBatchNormalization(nodes[v].brick)
        /\ {BATCH_NORM_OFFSET, BATCH_NORM_DIVISOR} \subseteq nodes[v].roles)
    => \A k \in DOMAIN history : history[k].outcome = "AssertionError"

\* C4: a call of batch_normalize never changes the input graph or any
\* variable that existed before it; it creates variables only after both
\* assertions passed, and a call that raises returns no graph and no
\* replacement.
C4_InputGraphUntouched ==
    [][(pc # "idle" \/ pc' # "idle") =>
          /\ graph' = graph
          /\ \A v \in DOMAIN nodes : v \in DOMAIN nodes' /\ nodes'[v] = nodes[v]
          /\ nodes' # nodes => pc = "loop"
          /\ (history' # history /\ ~Returned(Last(history'))) =>
                /\ pc = "assert"
                /\ Last(history').result = <<>>
                /\ Last(history').replacements = <<>>]_vars

C4_Witness ==
    /\ history # <<>>
    /\ Returned(history[1])
    /\ Len(history[1].replacements) >= 2
    /\ Len(nodes) > Len(graph)

\* C8: every call of batch_normalize on the same graph gives the same
\* outcome and the same replacements: the same old variables in the same
\* order, each by an estimate of the same input over the same axes.
C8_RunsGiveEquivalentReplacements ==
    \A j, k \in DOMAIN history :
        /\ history[j].outcome = history[k].outcome
        /\ history[j].replacements = history[k].replacements

C8_Witness ==
    /\ Len(history) >= 2
    /\ Returned(history[2])
    /\ Len(history[2].replacements) >= 4

\* C9: in every graph batch_normalize accepts, each call has exactly one
\* offset, one divisor and one input variable.
C9_OneVariablePerRole ==
    \A k \in DOMAIN history :
        Returned(history[k]) =>
            \A c \in CallsWith(BATCH_NORM_OFFSET),
               role \in {BATCH_NORM_OFFSET, BATCH_NORM_DIVISOR, INPUT} :
                Cardinality(VariablesOf(role, c)) = 1

ReplacementOf(r, c, role, op) ==
    /\ r.old \in VariablesOf(role, c)
    /\ r.new.op = op
    /\ r.new.arg \in VariablesOf(INPUT, c)
    /\ r.new.roles = {BATCH_NORM_MINIBATCH_ESTIMATE, role}
    /\ r.new.call = c
    /\ r.new.brick = BrickOfCall(c)
    /\ r.new.replacement_of = r.old

\* C10: an accepted graph gets exactly two replacements per call c: an
\* offset of c by the mean of an input of c and a divisor of c by
\* sqrt(var + epsilon) of the same input, both over the broadcast axes of
\* that offset; each new variable has the minibatch-estimate role and the
\* role it replaces and is annotated with c and c's brick.
C10_TwoReplacementsPerInvocation ==
    LET calls == CallsWith(BATCH_NORM_OFFSET)
    IN \A k \in DOMAIN history :
        Returned(history[k]) =>
            LET R == history[k].replacements
            IN /\ Len(R) = 2 * Cardinality(calls)
               /\ \A c \in calls :
                    \E i \in DOMAIN R :
                        /\ ReplacementOf(R[i], c, BATCH_NORM_OFFSET, "mean")
                        /\ R[i].new.axes = BroadcastAxes(R[i].old)
                        /\ \E j \in DOMAIN R :
                             /\ ReplacementOf(R[j], c, BATCH_NORM_DIVISOR,
                                              "sqrt_var_plus_epsilon")
                             /\ R[j].new.arg = R[i].new.arg
                             /\ R[j].new.axes = BroadcastAxes(R[i].old)

\* two invocations of the same brick, both replaced
C10_Witness ==
    /\ history # <<>>
    /\ Returned(history[1])
    /\ Len(history[1].replacements) = 4
    /\ BrickOfCall(history[1].replacements[1].new.call)
         = BrickOfCall(history[1].replacements[3].new.call)
    /\ history[1].replacements[1].new.call
         # history[1].replacements[3].new.call

\* The constructor was given a mask whose length is not that of input_dim,
\* a scalar input_dim counting as length 1.
MismatchedMask ==
    /\ brick.cls # "none"
    /\ args.input_dim # NoneAllocation
    /\ args.broadcastable.kind = "tuple"
    /\ Len(args.broadcastable.mask) #
         (IF args.input_dim.kind = "Sequence" THEN Len(args.input_dim.dims)
          ELSE 1)

NoTensors ==
    /\ brick.parameters = <<>>
    /\ brick.population_mean = <<>>
    /\ brick.population_stdev = <<>>

\* C5 as stated: a brick with a mismatched mask is never constructed.
C5_MismatchFailsAtConstruction == ~MismatchedMask

\* C5 as amended: the constructor accepts a mismatched mask; the brick then
\* never gets allocated: _allocate raises ValueError and no scale, shift,
\* population-mean or population-stdev tensor exists for it.
C5_MismatchFailsAtAllocation ==
    MismatchedMask =>
        /\ bpc \in {"constructed", "ValueError in _allocate"}
        /\ NoTensors

C5_Witness ==
    /\ MismatchedMask
    /\ args.cls = "BatchNormalization"
    /\ bpc = "ValueError in _allocate"

\* C6: SpatialBatchNormalization.__init__ raises ValueError exactly when
\* input_dim is not a sequence of length at least 2.
C6_SpatialRejectsFewerThanTwoDims ==
    (args.cls = "SpatialBatchNormalization") =>
        /\ bpc = "ValueError in __init__"
             <=> ~(args.input_dim.kind = "Sequence"
                     /\ Len(args.input_dim.dims) > 1)
        /\ bpc = "ValueError in __init__" <=> brick.cls = "none"

C6_Witness ==
    /\ args.cls = "SpatialBatchNormalization"
    /\ args.input_dim.kind = "Sequence"
    /\ Len(args.input_dim.dims) = 2
    /\ bpc = "constructed"

ChannelsThenSpatial(b) ==
    /\ b.broadcastable.kind = "tuple"
    /\ Len(b.broadcastable.mask) = Len(b.input_dim.dims)
    /\ b.broadcastable.mask[1] = FALSE
    /\ \A i \in 2..Len(b.broadcastable.mask) : b.broadcastable.mask[i] = TRUE

\* C7 as stated: every constructed spatial brick has the mask
\* (False, True, ..., True), whatever keywords were passed.
C7_MaskFixedWhateverKeywords ==
    (brick.cls = "SpatialBatchNormalization") => ChannelsThenSpatial(brick)

\* C7 as amended: the mask is (False, True, ..., True), as long as
\* input_dim, when no broadcastable keyword was passed; a broadcastable
\* keyword that was passed is the brick's mask.
C7_MaskFixedUnlessKeywordGiven ==
    (brick.cls = "SpatialBatchNormalization") =>
        IF args.broadcastable.kind = "absent"
        THEN ChannelsThenSpatial(brick)
        ELSE brick.broadcastable = args.broadcastable

C7_Witness ==
    /\ brick.cls = "SpatialBatchNormalization"
    /\ args.broadcastable.kind = "absent"
    /\ Len(brick.input_dim.dims) = 3
    /\ bpc = "allocated"

====
